---- MODULE Spec2Model ----
(***************************************************************************)
(* A model of nitrogen/inference_client.py: ModelClient, a pickle-over-    *)
(* ZeroMQ REQ client with a receive timeout.  The state is the client      *)
(* object, its REQ socket (closed flag, send/receive state machine,        *)
(* RCVTIMEO), the transport context, the messages in flight and the        *)
(* position of every caller inside predict / reset / info / close.         *)
(***************************************************************************)
EXTENDS Integers, Sequences, FiniteSets, TLC

\* ---------------------------------------------------------------- bounds
\* Calls of predict/reset/info issued in one run.
MaxCalls == 3
\* Milliseconds of blocking in socket.recv() that one Tick stands for.
TickMs == 10000
\* Ticks a caller may be observed waiting (only a socket without RCVTIMEO
\* would get there).
MaxTicks == 4

\* ------------------------------------------------------ program constants
\* self.timeout_ms = 30000
TIMEOUT_MS == 30000
\* port=5555
DEFAULT_PORT == 5555

\* Calls issued in one run of two threads.
MaxCallsMT == 2

Threads == {1, 2}
Hosts == {"localhost"}
Ports == {DEFAULT_PORT, DEFAULT_PORT + 1}

\* H x W x 3 uint8 frames, image[h][w][c]: 1 x 1 x 3, 1 x 2 x 3, 2 x 1 x 3.
Images ==
    { << << <<0, 0, 0>> >> >>,
      << << <<255, 0, 7>>, <<1, 2, 3>> >> >>,
      << << <<255, 0, 7>> >>, << <<1, 2, 3>> >> >> }
NoImage == <<>>

VARIABLES
    callers,    \* the threads that use the client
    client,     \* self.host, self.port, self.timeout_ms
    socket,     \* self.socket: closed flag, REQ state, RCVTIMEO, endpoint
    termed,     \* self.context has been terminated
    outq,       \* requests queued in the socket's outbound pipe
    srv,        \* requests the server has received and not yet answered
    inbox,      \* replies that reached the socket and were not yet received
    pc,         \* each caller's position
    call,       \* each caller's current (or last) call
    result,     \* each caller's last outcome
    waited,     \* ticks the caller has been blocked in socket.recv()
    scope,      \* the caller's with-statement: none, body, exit, left
    exc,        \* exception type handed to __exit__ ("none": normal exit)
    propagated, \* exception type that left the with-statement
    nextId      \* number of the next request (for request/reply matching)

vars == <<callers, client, socket, termed, outq, srv, inbox, pc, call, result,
          waited, scope, exc, propagated, nextId>>

\* ------------------------------------------------------------- pickle
\* Field order of the dictionaries that travel.
KeyOrder == <<"type", "image", "status", "message", "pred", "info">>

\* The shape of an array image[h][w][c].
Shape(a) == <<Len(a), Len(a[1]), Len(a[1][1])>>

RECURSIVE Concat(_)
Concat(ss) == IF ss = <<>> THEN <<>> ELSE Head(ss) \o Concat(Tail(ss))

\* The array's samples in C order, as numpy pickles them.
Flatten(a) == Concat([h \in 1..Len(a) |-> Concat(a[h])])

\* Mutant: the buffer is read back with height and width exchanged.
ReshapeSwapped(shape, flat) ==
    [h \in 1..shape[2] |->
        [w \in 1..shape[1] |->
            [c \in 1..shape[3] |->
                flat[((h - 1) * shape[1] + (w - 1)) * shape[3] + c]]]]

\* The array numpy rebuilds from a shape and a C-order buffer.
Reshape(shape, flat) ==
    [h \in 1..shape[1] |->
        [w \in 1..shape[2] |->
            [c \in 1..shape[3] |->
                flat[((h - 1) * shape[2] + (w - 1)) * shape[3] + c]]]]

\* How a field's value is pickled: an ndarray as its shape, dtype and buffer.
Encode(k, v) ==
    IF k = "image" THEN <<"ndarray", Shape(v), "uint8", Flatten(v)>> ELSE v

\* The value unpickled for a field.
Decode(k, x) == IF k = "image" THEN Reshape(x[2], x[4]) ELSE x

RECURSIVE Items(_, _)
Items(d, ks) ==
    IF ks = <<>> THEN <<>>
    ELSE IF Head(ks) \in DOMAIN d
         THEN <<Head(ks), Encode(Head(ks), d[Head(ks)])>> \o Items(d, Tail(ks))
         ELSE Items(d, Tail(ks))

\* pickle.dumps of a dict: a header, key/value pairs, a stop mark.
Dumps(d) == <<"PROTO">> \o Items(d, KeyOrder) \o <<"STOP">>

\* Whether pickle.loads accepts the bytes.
IsPickle(b) ==
    /\ Len(b) >= 2
    /\ b[1] = "PROTO"
    /\ b[Len(b)] = "STOP"
    /\ (Len(b) - 2) % 2 = 0

\* pickle.loads of accepted bytes.
Loads(b) ==
    LET n == (Len(b) - 2) \div 2
        keys == { b[2 * i] : i \in 1..n }
    IN  [ k \in keys |->
            Decode(k, b[2 * (CHOOSE i \in 1..n : b[2 * i] = k) + 1]) ]

\* ----------------------------------------------------------- requests
PredictRequest(image) == [type |-> "predict", image |-> image]
ResetRequest == [type |-> "reset"]
InfoRequest == [type |-> "info"]

Request(c) ==
    CASE c.op = "predict" -> PredictRequest(c.image)
      [] c.op = "reset" -> ResetRequest
      [] OTHER -> InfoRequest

\* ------------------------------------------------------------ outcomes
NoResult ==
    [kind |-> "none", type |-> "none", text |-> "", value |-> "None",
     id |-> 0, sent |-> FALSE, re |-> 0]

Returned(c, v, re) ==
    [kind |-> "return", type |-> "none", text |-> "", value |-> v,
     id |-> c.id, sent |-> TRUE, re |-> re]

Raised(c, type, text, sent, re) ==
    [kind |-> "raise", type |-> type, text |-> text, value |-> "None",
     id |-> c.id, sent |-> sent, re |-> re]

\* f"{x}" of the float ms/1000: "30.0", "1.5", "0.25".
FormatSeconds(ms) ==
    LET whole == ms \div 1000
        frac == ms % 1000
        digits ==
            IF frac = 0 THEN "0"
            ELSE IF frac % 100 = 0 THEN ToString(frac \div 100)
            ELSE IF frac % 10 = 0
                 THEN (IF frac < 100 THEN "0" ELSE "") \o ToString(frac \div 10)
            ELSE (IF frac < 10 THEN "00" ELSE IF frac < 100 THEN "0" ELSE "")
                 \o ToString(frac)
    IN  ToString(whole) \o "." \o digits

TimeoutPrefix == "Connection to model server timed out after "
TimeoutSuffix == "s. Is 'scripts/serve.py' running?"

\* Mutant: the milliseconds are reported as if they were seconds.
TimeoutTextMillis(c) ==
    TimeoutPrefix \o FormatSeconds(c.timeout_ms * 1000) \o TimeoutSuffix

\* The text of the RuntimeError raised on zmq.Again.
TimeoutText(c) == TimeoutPrefix \o FormatSeconds(c.timeout_ms) \o TimeoutSuffix

\* Mutant: the server's message is dropped.
ServerMessageIgnored(response) == "Unknown error"

\* Mutant: response.get('message', '')
ServerMessageNoDefault(response) ==
    IF "message" \in DOMAIN response THEN response["message"]
    ELSE ""

\* response.get('message', 'Unknown error')
ServerMessage(response) ==
    IF "message" \in DOMAIN response THEN response["message"]
    ELSE "Unknown error"

\* The text of the RuntimeError raised on a status other than "ok".
ServerErrorText(response) == "Server error: " \o ServerMessage(response)

\* Mutant: predict and info read each other's payload field.
PayloadKeySwapped(op) == IF op = "predict" THEN "info" ELSE "pred"

\* The payload field each operation returns.
PayloadKey(op) == IF op = "predict" THEN "pred" ELSE "info"

\* Mutant: bytes that are no pickle are reported like a server error.
OutcomeMalformedAsServerError(c, b, re) ==
    IF ~IsPickle(b)
    THEN Raised(c, "RuntimeError", "Server error: Unknown error", TRUE, re)
    ELSE LET response == Loads(b) IN
         IF "status" \notin DOMAIN response
         THEN Raised(c, "KeyError", "status", TRUE, re)
         ELSE IF response["status"] # "ok"
         THEN Raised(c, "RuntimeError", ServerErrorText(response), TRUE, re)
         ELSE IF c.op = "reset"
         THEN Returned(c, "None", re)
         ELSE IF PayloadKey(c.op) \notin DOMAIN response
         THEN Raised(c, "KeyError", PayloadKey(c.op), TRUE, re)
         ELSE Returned(c, response[PayloadKey(c.op)], re)

\* What a call makes of the bytes socket.recv() returned: pickle.loads, the
\* status check, the payload.
Outcome(c, b, re) ==
    IF ~IsPickle(b)
    THEN Raised(c, "UnpicklingError", "invalid load key", TRUE, re)
    ELSE LET response == Loads(b) IN
         IF "status" \notin DOMAIN response
         THEN Raised(c, "KeyError", "status", TRUE, re)
         ELSE IF response["status"] # "ok"
         THEN Raised(c, "RuntimeError", ServerErrorText(response), TRUE, re)
         ELSE IF c.op = "reset"
         THEN Returned(c, "None", re)
         ELSE IF PayloadKey(c.op) \notin DOMAIN response
         THEN Raised(c, "KeyError", PayloadKey(c.op), TRUE, re)
         ELSE Returned(c, response[PayloadKey(c.op)], re)

\* ------------------------------------------------------------- socket
\* f"tcp://{host}:{port}"
Endpoint(host, port) == "tcp://" \o host \o ":" \o ToString(port)

\* Mutant: a socket that accepts a send at any time (a DEALER, or REQ_RELAXED).
ReqCanSendAlways(s) == TRUE

\* zmq.REQ: a send is accepted only between exchanges.
ReqCanSend(s) == s.state = "idle"

\* Mutant: the send does not look at the REQ state.
SendErrorNoState(s) == IF s.closed THEN "ENOTSOCK" ELSE "none"

\* Mutant: the send does not look at the closed flag.
SendErrorNoClosed(s) == IF ~ReqCanSend(s) THEN "EFSM" ELSE "none"

\* The error socket.send() raises, "none" when the message is queued.
SendError(s) ==
    IF s.closed THEN "ENOTSOCK"
    ELSE IF ~ReqCanSend(s) THEN "EFSM"
    ELSE "none"

SendErrorText(e) ==
    IF e = "ENOTSOCK" THEN "Socket operation on non-socket"
    ELSE "Operation cannot be accomplished in current state"

\* Mutant: a receive that never gives up (no RCVTIMEO).
RecvNeverTimesOut(s, w) == FALSE

\* zmq.RCVTIMEO: socket.recv() gives up (zmq.Again) after rcvtimeo ms.
RecvTimedOut(s, w) == s.rcvtimeo >= 0 /\ w * TickMs >= s.rcvtimeo

\* The socket after socket.close().
Closed(s) == [s EXCEPT !.closed = TRUE]

\* LINGER is left at its default (-1): context.term() waits for queued
\* requests to be delivered.
TermCanReturn == termed \/ outq = <<>>

\* ------------------------------------------------------------- server
\* The replies the serving process may produce: well-formed envelopes, an
\* envelope with no status, and bytes that are no pickle.
Replies ==
    { Dumps([status |-> "ok", pred |-> "[{j_left,j_right,buttons}]"]),
      Dumps([status |-> "ok", info |-> "{episode_length: 0}"]),
      Dumps([status |-> "ok"]),
      Dumps([status |-> "error", message |-> "bad frame"]),
      Dumps([status |-> "error"]),
      Dumps([message |-> "bad frame"]),
      <<"PROTO", "status">> }

\* ------------------------------------------------------------ initial
NoCall == [op |-> "none", image |-> NoImage, id |-> 0, afterClose |-> FALSE]

\* Mutant: __init__ records the timeout and does not set it on the socket
\* (RCVTIMEO stays at its default, -1: no bound).
InitClientNoRcvTimeo(host, port) ==
    /\ client = [host |-> host, port |-> port, timeout_ms |-> TIMEOUT_MS]
    /\ socket = [closed |-> FALSE, state |-> "idle", rcvtimeo |-> -1,
                 endpoint |-> Endpoint(host, port)]
    /\ termed = FALSE

\* __init__: the fields, the REQ socket connected to the endpoint, RCVTIMEO.
InitClient(host, port) ==
    /\ client = [host |-> host, port |-> port, timeout_ms |-> TIMEOUT_MS]
    /\ socket = [closed |-> FALSE, state |-> "idle", rcvtimeo |-> TIMEOUT_MS,
                 endpoint |-> Endpoint(host, port)]
    /\ termed = FALSE

InitRest ==
    /\ outq = <<>>
    /\ srv = <<>>
    /\ inbox = <<>>
    /\ pc = [t \in Threads |-> "idle"]
    /\ call = [t \in Threads |-> NoCall]
    /\ result = [t \in Threads |-> NoResult]
    /\ waited = [t \in Threads |-> 0]
    /\ scope = [t \in Threads |-> "none"]
    /\ exc = [t \in Threads |-> "none"]
    /\ propagated = [t \in Threads |-> "none"]
    /\ nextId = 1

Init ==
    /\ callers = {1}
    /\ \E host \in Hosts, port \in Ports : InitClient(host, port)
    /\ InitRest

InitMT ==
    /\ callers = Threads
    /\ InitClient("localhost", DEFAULT_PORT)
    /\ InitRest

\* ------------------------------------------------------------ the calls
CallBudget == IF Cardinality(callers) > 1 THEN MaxCallsMT ELSE MaxCalls


\* A caller enters predict/reset/info: the request is built.
Begin(t, op, image) ==
    /\ t \in callers
    /\ pc[t] = "idle"
    /\ scope[t] # "exit"
    /\ nextId <= CallBudget
    /\ call' = [call EXCEPT ![t] = [op |-> op, image |-> image, id |-> nextId,
                                    afterClose |-> socket.closed]]
    /\ nextId' = nextId + 1
    /\ pc' = [pc EXCEPT ![t] = "send"]
    /\ UNCHANGED <<callers, client, socket, termed, outq, srv, inbox, result,
                   waited, scope, exc, propagated>>

predict(t) == \E image \in Images : Begin(t, "predict", image)
reset(t) == Begin(t, "reset", NoImage)
info(t) == Begin(t, "info", NoImage)

\* self.socket.send(pickle.dumps(request))
Send(t) ==
    /\ pc[t] = "send"
    /\ LET e == SendError(socket) IN
       IF e = "none"
       THEN /\ outq' = Append(outq, [bytes |-> Dumps(Request(call[t])),
                                     id |-> call[t].id])
            /\ socket' = [socket EXCEPT !.state = "awaiting"]
            /\ pc' = [pc EXCEPT ![t] = "recv"]
            /\ UNCHANGED result
       ELSE /\ result' = [result EXCEPT ![t] =
                  Raised(call[t], "ZMQError", SendErrorText(e), FALSE, 0)]
            /\ pc' = [pc EXCEPT ![t] = "raised"]
            /\ UNCHANGED <<outq, socket>>
    /\ UNCHANGED <<callers, client, termed, srv, inbox, call, waited, scope,
                   exc, propagated, nextId>>

\* Time passes while the caller is blocked in self.socket.recv().
Tick(t) ==
    /\ pc[t] = "recv"
    /\ ~socket.closed
    /\ inbox = <<>>
    /\ ~RecvTimedOut(socket, waited[t])
    /\ waited[t] < MaxTicks
    /\ waited' = [waited EXCEPT ![t] = waited[t] + 1]
    /\ UNCHANGED <<callers, client, socket, termed, outq, srv, inbox, pc, call,
                   result, scope, exc, propagated, nextId>>

\* Mutant: the timeout handler also closes the socket.
RecvTimeoutClosing(t) ==
    /\ pc[t] = "recv"
    /\ ~socket.closed
    /\ inbox = <<>>
    /\ RecvTimedOut(socket, waited[t])
    /\ result' = [result EXCEPT ![t] =
           Raised(call[t], "RuntimeError", TimeoutText(client), TRUE, 0)]
    /\ waited' = [waited EXCEPT ![t] = 0]
    /\ pc' = [pc EXCEPT ![t] = "raised"]
    /\ socket' = Closed(socket)
    /\ UNCHANGED <<callers, client, termed, outq, srv, inbox, call, scope,
                   exc, propagated, nextId>>

\* Mutant: on zmq.Again the request is sent once more instead of raising.
RecvTimeoutRetry(t) ==
    /\ pc[t] = "recv"
    /\ ~socket.closed
    /\ inbox = <<>>
    /\ RecvTimedOut(socket, waited[t])
    /\ waited' = [waited EXCEPT ![t] = 0]
    /\ pc' = [pc EXCEPT ![t] = "send"]
    /\ UNCHANGED <<callers, client, socket, termed, outq, srv, inbox, call,
                   result, scope, exc, propagated, nextId>>

\* except zmq.Again: raise RuntimeError(...)
RecvTimeout(t) ==
    /\ pc[t] = "recv"
    /\ ~socket.closed
    /\ inbox = <<>>
    /\ RecvTimedOut(socket, waited[t])
    /\ result' = [result EXCEPT ![t] =
           Raised(call[t], "RuntimeError", TimeoutText(client), TRUE, 0)]
    /\ waited' = [waited EXCEPT ![t] = 0]
    /\ pc' = [pc EXCEPT ![t] = "raised"]
    /\ UNCHANGED <<callers, client, socket, termed, outq, srv, inbox, call,
                   scope, exc, propagated, nextId>>

\* Mutant: the exchange is not finished by the receive; the socket goes on
\* awaiting a reply.
RecvReplyKeepsAwaiting(t) ==
    /\ pc[t] = "recv"
    /\ ~socket.closed
    /\ inbox # <<>>
    /\ LET m == Head(inbox)
           r == Outcome(call[t], m.bytes, m.re)
       IN  /\ result' = [result EXCEPT ![t] = r]
           /\ pc' = [pc EXCEPT ![t] = IF r.kind = "raise" THEN "raised"
                                       ELSE "idle"]
    /\ inbox' = Tail(inbox)
    /\ waited' = [waited EXCEPT ![t] = 0]
    /\ UNCHANGED <<callers, client, socket, termed, outq, srv, call, scope,
                   exc, propagated, nextId>>

\* Mutant: a reply that makes the call raise leaves the socket awaiting.
RecvReplyStuckOnError(t) ==
    /\ pc[t] = "recv"
    /\ ~socket.closed
    /\ inbox # <<>>
    /\ LET m == Head(inbox)
           r == Outcome(call[t], m.bytes, m.re)
       IN  /\ result' = [result EXCEPT ![t] = r]
           /\ pc' = [pc EXCEPT ![t] = IF r.kind = "raise" THEN "raised"
                                       ELSE "idle"]
           /\ socket' = [socket EXCEPT !.state = IF r.kind = "raise"
                                                 THEN "awaiting" ELSE "idle"]
    /\ inbox' = Tail(inbox)
    /\ waited' = [waited EXCEPT ![t] = 0]
    /\ UNCHANGED <<callers, client, termed, outq, srv, call, scope, exc,
                   propagated, nextId>>

\* socket.recv() returns a reply: pickle.loads, the status check, the result.
RecvReply(t) ==
    /\ pc[t] = "recv"
    /\ ~socket.closed
    /\ inbox # <<>>
    /\ LET m == Head(inbox)
           r == Outcome(call[t], m.bytes, m.re)
       IN  /\ result' = [result EXCEPT ![t] = r]
           /\ pc' = [pc EXCEPT ![t] = IF r.kind = "raise" THEN "raised"
                                       ELSE "idle"]
    /\ inbox' = Tail(inbox)
    /\ socket' = [socket EXCEPT !.state = "idle"]
    /\ waited' = [waited EXCEPT ![t] = 0]
    /\ UNCHANGED <<callers, client, termed, outq, srv, call, scope, exc,
                   propagated, nextId>>

\* The caller handles the exception a call raised.
Catch(t) ==
    /\ pc[t] = "raised"
    /\ scope[t] # "exit"
    /\ pc' = [pc EXCEPT ![t] = "idle"]
    /\ UNCHANGED <<callers, client, socket, termed, outq, srv, inbox, call,
                   result, waited, scope, exc, propagated, nextId>>

\* ------------------------------------------------------ close and scope
\* The caller calls close().
close(t) ==
    /\ t \in callers
    /\ pc[t] = "idle"
    /\ scope[t] # "exit"
    /\ pc' = [pc EXCEPT ![t] = "close"]
    /\ UNCHANGED <<callers, client, socket, termed, outq, srv, inbox, call,
                   result, waited, scope, exc, propagated, nextId>>

\* __enter__: the with-statement's body begins.
Enter(t) ==
    /\ t \in callers
    /\ pc[t] = "idle"
    /\ scope[t] = "none"
    /\ scope' = [scope EXCEPT ![t] = "body"]
    /\ UNCHANGED <<callers, client, socket, termed, outq, srv, inbox, pc, call,
                   result, waited, exc, propagated, nextId>>

\* Mutant: __exit__ closes only when the body ended normally.
ExitClosesOnSuccessOnly(t) ==
    /\ pc[t] \in {"idle", "raised"}
    /\ scope[t] = "body"
    /\ exc' = [exc EXCEPT ![t] = IF pc[t] = "raised" THEN result[t].type
                                 ELSE "none"]
    /\ IF pc[t] = "raised"
       THEN /\ scope' = [scope EXCEPT ![t] = "left"]
            /\ propagated' = [propagated EXCEPT ![t] = result[t].type]
            /\ pc' = pc
       ELSE /\ scope' = [scope EXCEPT ![t] = "exit"]
            /\ pc' = [pc EXCEPT ![t] = "close"]
            /\ UNCHANGED propagated
    /\ UNCHANGED <<callers, client, socket, termed, outq, srv, inbox, call,
                   result, waited, nextId>>

\* __exit__(exc_type, ...): the body ended, or an exception left it; close().
Exit(t) ==
    /\ pc[t] \in {"idle", "raised"}
    /\ scope[t] = "body"
    /\ exc' = [exc EXCEPT ![t] = IF pc[t] = "raised" THEN result[t].type
                                 ELSE "none"]
    /\ scope' = [scope EXCEPT ![t] = "exit"]
    /\ pc' = [pc EXCEPT ![t] = "close"]
    /\ UNCHANGED <<callers, client, socket, termed, outq, srv, inbox, call,
                   result, waited, propagated, nextId>>

\* self.socket.close()
SocketClose(t) ==
    /\ pc[t] = "close"
    /\ socket' = Closed(socket)
    /\ inbox' = <<>>
    /\ pc' = [pc EXCEPT ![t] = "term"]
    /\ UNCHANGED <<callers, client, termed, outq, srv, call, result, waited,
                   scope, exc, propagated, nextId>>

\* self.context.term(), the return from close() and, inside __exit__, the
\* return of None: the exception handed to __exit__ is raised again.
ContextTerm(t) ==
    /\ pc[t] = "term"
    /\ TermCanReturn
    /\ termed' = TRUE
    /\ IF scope[t] = "exit"
       THEN /\ scope' = [scope EXCEPT ![t] = "left"]
            /\ propagated' = [propagated EXCEPT ![t] = exc[t]]
            /\ pc' = [pc EXCEPT ![t] = IF exc[t] = "none" THEN "idle"
                                        ELSE "raised"]
       ELSE /\ pc' = [pc EXCEPT ![t] = "idle"]
            /\ UNCHANGED <<scope, propagated>>
    /\ UNCHANGED <<callers, client, socket, outq, srv, inbox, call, result,
                   waited, exc, nextId>>

\* ----------------------------------------------------- the environment
\* The transport hands the queued request to the server.
Deliver ==
    /\ ~termed
    /\ outq # <<>>
    /\ srv' = Append(srv, Head(outq))
    /\ outq' = Tail(outq)
    /\ UNCHANGED <<callers, client, socket, termed, inbox, pc, call, result,
                   waited, scope, exc, propagated, nextId>>

\* The server answers its oldest request; a reply to a closed socket is lost.
ServerReply ==
    /\ srv # <<>>
    /\ \E b \in Replies :
          inbox' = IF socket.closed THEN inbox
                   ELSE Append(inbox, [bytes |-> b, re |-> Head(srv).id])
    /\ srv' = Tail(srv)
    /\ UNCHANGED <<callers, client, socket, termed, outq, pc, call, result,
                   waited, scope, exc, propagated, nextId>>

\* ------------------------------------------- two threads on one client
\* socket.recv() of a thread whose socket another thread closed.
RecvOnClosed(t) ==
    /\ pc[t] = "recv"
    /\ socket.closed
    /\ result' = [result EXCEPT ![t] =
           Raised(call[t], "ZMQError", SendErrorText("ENOTSOCK"), TRUE, 0)]
    /\ waited' = [waited EXCEPT ![t] = 0]
    /\ pc' = [pc EXCEPT ![t] = "raised"]
    /\ UNCHANGED <<callers, client, socket, termed, outq, srv, inbox, call,
                   scope, exc, propagated, nextId>>

\* A thread calls into the socket while another one is inside
\* socket.recv(): the socket is not thread-safe, and besides the outcomes of
\* Send and SocketClose the process may die, and its connection with it.
RaceAbort(t) ==
    /\ pc[t] \in {"send", "close"}
    /\ \E u \in callers \ {t} : pc[u] = "recv"
    /\ pc' = [u \in Threads |-> "dead"]
    /\ socket' = Closed(socket)
    /\ termed' = TRUE
    /\ outq' = <<>>
    /\ srv' = <<>>
    /\ inbox' = <<>>
    /\ call' = [u \in Threads |-> NoCall]
    /\ result' = [u \in Threads |-> NoResult]
    /\ waited' = [u \in Threads |-> 0]
    /\ UNCHANGED <<callers, client, scope, exc, propagated, nextId>>

\* ------------------------------------------------------- specifications
Step(t) ==
    \/ predict(t)
    \/ reset(t)
    \/ info(t)
    \/ Send(t)
    \/ Tick(t)
    \/ RecvTimeout(t)
    \/ RecvReply(t)
    \/ Catch(t)
    \/ close(t)
    \/ Enter(t)
    \/ Exit(t)
    \/ SocketClose(t)
    \/ ContextTerm(t)

Next ==
    \/ \E t \in Threads : Step(t)
    \/ Deliver
    \/ ServerReply

StepMT(t) ==
    \/ predict(t)
    \/ reset(t)
    \/ info(t)
    \/ Send(t)
    \/ Tick(t)
    \/ RecvTimeout(t)
    \/ RecvReply(t)
    \/ Catch(t)
    \/ close(t)
    \/ SocketClose(t)
    \/ ContextTerm(t)

NextMT ==
    \/ \E t \in Threads : StepMT(t)
    \/ Deliver
    \/ ServerReply
    \/ \E t \in Threads : RecvOnClosed(t)
    \/ \E t \in Threads : RaceAbort(t)

Spec == Init /\ [][Next]_vars

SpecMT == InitMT /\ [][NextMT]_vars

\* The steps a caller takes by itself once it is inside a call or inside
\* close(): the thread runs, and time passes while it is blocked.
Progress(t) ==
    \/ Send(t)
    \/ Tick(t)
    \/ RecvTimeout(t)
    \/ RecvReply(t)
    \/ SocketClose(t)
    \/ ContextTerm(t)

\* One caller, whose steps are taken when they can be; the transport and the
\* server owe nothing.
SpecLive == Init /\ [][Next]_vars /\ WF_vars(\E t \in Threads : Progress(t))

\* ---------------------------------------------------------------- claims
InFlight == Len(outq) + Len(srv) + Len(inbox)

\* The outcome is the RuntimeError of a receive timeout.
IsTimeoutError(r) ==
    /\ r.kind = "raise"
    /\ r.type = "RuntimeError"
    /\ r.text = TimeoutPrefix \o "30.0" \o TimeoutSuffix

\* The reply at the head of the inbox is an envelope with status "error".
ErrorReplyAhead ==
    /\ inbox # <<>>
    /\ IsPickle(Head(inbox).bytes)
    /\ "status" \in DOMAIN Loads(Head(inbox).bytes)
    /\ Loads(Head(inbox).bytes)["status"] = "error"

\* Caller t receives the reply at the head of the inbox in this step.
Receives(t) == pc[t] = "recv" /\ ~socket.closed /\ inbox # <<>> /\ pc'[t] # "recv"

\* C1 (as claimed): after a call failed by timeout, the next call on the open
\* connection gets its request accepted by the socket and goes on to wait
\* for its own reply.
C1_UsableAfterTimeout ==
    [][\A t \in Threads :
          (/\ pc[t] = "send"
           /\ pc'[t] # "send"
           /\ ~socket.closed
           /\ IsTimeoutError(result[t]))
          => pc'[t] = "recv"]_vars

\* C2: a call whose wait ends with the configured bound elapsed and no reply
\* raises, returns no payload, and reports the configured timeout (the
\* socket's RCVTIMEO of 30000 ms) as "30.0" seconds.
C2_TimeoutReported ==
    [][\A t \in Threads :
          (/\ pc[t] = "recv"
           /\ ~socket.closed
           /\ inbox = <<>>
           /\ waited[t] * TickMs >= socket.rcvtimeo
           /\ pc'[t] # "recv")
          => /\ socket.rcvtimeo = 30 * 1000
             /\ IsTimeoutError(result'[t])
             /\ result'[t].value = "None"
             /\ result'[t].id = call[t].id
             /\ pc'[t] = "raised"]_vars

C2_Witness ==
    \E t \in Threads :
        pc[t] = "raised" /\ IsTimeoutError(result[t]) /\ result[t].sent

\* C3: at most one request is in flight; a request is only in flight while
\* the socket awaits its reply, and only a caller whose request is the
\* unmatched one is receiving.
C3_OneInFlight ==
    /\ InFlight <= 1
    /\ socket.state = "idle" => InFlight = 0
    /\ Cardinality({t \in Threads : pc[t] = "recv"}) <= 1
    /\ \A t \in Threads :
          pc[t] = "recv" =>
              /\ socket.state = "awaiting"
              /\ \A m \in {outq[i] : i \in 1..Len(outq)}
                       \cup {srv[i] : i \in 1..Len(srv)} : m.id = call[t].id
              /\ \A m \in {inbox[i] : i \in 1..Len(inbox)} : m.re = call[t].id

C3_Witness ==
    \E t \in Threads :
        /\ pc[t] = "recv"
        /\ call[t].id >= 2
        /\ InFlight = 1
        /\ result[t].kind = "return"

\* C4 (as claimed): a caller's send never happens while another caller is
\* between its own send and its own receive.
C4_NoOverlap ==
    [][\A t \in Threads :
          (pc[t] = "send" /\ pc'[t] # "send")
          => \A u \in Threads \ {t} : pc[u] # "recv"]_vars

\* C5: a reply a call consumes is the answer to the request that call sent.
C5_ReplyMatchesRequest ==
    \A t \in Threads : result[t].re # 0 => result[t].re = result[t].id

C5_Witness ==
    \E t \in Threads, u \in Threads :
        /\ t # u
        /\ result[t].re # 0
        /\ result[u].re # 0
        /\ result[t].id < result[u].id

\* C6: a call begun on a closed connection never gets to wait for a reply,
\* puts no request on the wire, and ends by raising without a payload.
C6_ClosedFailsFast ==
    \A t \in Threads :
        call[t].afterClose =>
            /\ pc[t] # "recv"
            /\ waited[t] = 0
            /\ \A m \in {outq[i] : i \in 1..Len(outq)}
                     \cup {srv[i] : i \in 1..Len(srv)} : m.id # call[t].id
            /\ pc[t] # "send" =>
                  /\ result[t].id = call[t].id
                  /\ result[t].kind = "raise"
                  /\ ~result[t].sent
                  /\ result[t].value = "None"

C6_Witness ==
    \E t \in Threads :
        call[t].afterClose /\ pc[t] = "raised" /\ result[t].id = call[t].id

\* C7 (as claimed): on a reply with status "error" and a message, the error's
\* message is exactly the server's message.
C7_MessageExactly ==
    [][\A t \in Threads :
          (/\ Receives(t)
           /\ ErrorReplyAhead
           /\ "message" \in DOMAIN Loads(Head(inbox).bytes))
          => /\ result'[t].kind = "raise"
             /\ result'[t].text = Loads(Head(inbox).bytes)["message"]]_vars

\* C7 (amended): on a reply with status "error" and a message, the call raises
\* a RuntimeError whose message is "Server error: " followed by the server's
\* message, verbatim.
C7_MessagePrefixed ==
    [][\A t \in Threads :
          (/\ Receives(t)
           /\ ErrorReplyAhead
           /\ "message" \in DOMAIN Loads(Head(inbox).bytes))
          => /\ result'[t].kind = "raise"
             /\ result'[t].type = "RuntimeError"
             /\ result'[t].text =
                    "Server error: " \o Loads(Head(inbox).bytes)["message"]]_vars

C7_Witness ==
    \E t \in Threads :
        /\ pc[t] = "raised"
        /\ result[t].re = result[t].id
        /\ result[t].text = "Server error: bad frame"

\* C8 (as claimed): on a reply with status "error" and no message, the error's
\* message equals "Unknown error".
C8_DefaultExactly ==
    [][\A t \in Threads :
          (/\ Receives(t)
           /\ ErrorReplyAhead
           /\ "message" \notin DOMAIN Loads(Head(inbox).bytes))
          => /\ result'[t].kind = "raise"
             /\ result'[t].text = "Unknown error"]_vars

\* C8 (amended): on a reply with status "error" and no message, the call raises
\* a RuntimeError whose message is "Server error: Unknown error".
C8_DefaultPrefixed ==
    [][\A t \in Threads :
          (/\ Receives(t)
           /\ ErrorReplyAhead
           /\ "message" \notin DOMAIN Loads(Head(inbox).bytes))
          => /\ result'[t].kind = "raise"
             /\ result'[t].type = "RuntimeError"
             /\ result'[t].text = "Server error: Unknown error"]_vars

C8_Witness ==
    \E t \in Threads :
        /\ pc[t] = "raised"
        /\ result[t].re = result[t].id
        /\ result[t].text = "Server error: Unknown error"

\* C9: an exception that leaves the body of the with-statement is handed to
\* __exit__, which runs close(); once the scope has been left the connection
\* is closed and the exception handed to __exit__ has been raised again.
C9_ScopeCloses ==
    /\ [](\A t \in Threads :
             /\ scope[t] = "exit" => pc[t] \in {"close", "term"}
             /\ scope[t] = "left" =>
                   /\ socket.closed
                   /\ termed
                   /\ propagated[t] = exc[t])
    /\ [][\A t \in Threads :
             /\ (scope[t] = "body" /\ scope'[t] # "body" /\ pc[t] = "raised")
                => (exc'[t] = result[t].type /\ exc'[t] # "none")
             /\ (scope[t] = "exit" /\ scope'[t] = "left" /\ exc[t] # "none")
                => (pc'[t] = "raised" /\ result'[t].type = exc[t])]_vars

C9_Witness ==
    \E t \in Threads :
        /\ scope[t] = "left"
        /\ propagated[t] = "RuntimeError"
        /\ pc[t] = "raised"
        /\ socket.closed

\* C10: the connection is open or closed; it only ever goes from open to
\* closed, and only in the socket.close() of close().
C10_OnlyCloseCloses ==
    /\ [](socket.closed \in BOOLEAN)
    /\ [][socket'.closed # socket.closed =>
             /\ ~socket.closed
             /\ socket'.closed
             /\ \E t \in Threads : pc[t] = "close" /\ pc'[t] = "term"]_vars

C10_Witness ==
    \E t \in Threads :
        /\ pc[t] = "idle"
        /\ ~socket.closed
        /\ result[t].kind = "raise"
        /\ result[t].sent
        /\ call[t].id >= 2

\* C11: a call returns only in the step in which it receives a reply, that
\* reply is a well-formed envelope with status "ok", and the value returned
\* is the reply's pred field for predict, its info field for info and
\* nothing for reset.
C11_ReturnsOkPayload ==
    [][\A t \in Threads :
          (result'[t] # result[t] /\ result'[t].kind = "return")
          => /\ Receives(t)
             /\ result'[t].id = call[t].id
             /\ IsPickle(Head(inbox).bytes)
             /\ LET reply == Loads(Head(inbox).bytes) IN
                /\ "status" \in DOMAIN reply
                /\ reply["status"] = "ok"
                /\ call[t].op = "predict" =>
                      "pred" \in DOMAIN reply /\ result'[t].value = reply["pred"]
                /\ call[t].op = "info" =>
                      "info" \in DOMAIN reply /\ result'[t].value = reply["info"]
                /\ call[t].op = "reset" => result'[t].value = "None"]_vars

C11_Witness ==
    \E t \in Threads :
        /\ pc[t] = "idle"
        /\ call[t].op = "predict"
        /\ result[t].id = call[t].id
        /\ result[t].kind = "return"
        /\ result[t].value = "[{j_left,j_right,buttons}]"

\* C12: while a reset is in progress nothing changes the host, the port, the
\* timeout, the endpoint, the closed flag or the context; when the reset
\* returns it returns nothing and the connection is open and idle, with no
\* request in flight.
C12_ResetLeavesConnection ==
    [][\A t \in Threads :
          (call[t].op = "reset" /\ pc[t] \in {"send", "recv"})
          => /\ client' = client
             /\ socket'.closed = socket.closed
             /\ socket'.rcvtimeo = socket.rcvtimeo
             /\ socket'.endpoint = socket.endpoint
             /\ termed' = termed
             /\ (pc'[t] = "idle") =>
                   /\ result'[t].kind = "return"
                   /\ result'[t].value = "None"
                   /\ result'[t].id = call[t].id
                   /\ ~socket'.closed
                   /\ ~termed'
                   /\ socket'.state = "idle"
                   /\ outq' = <<>> /\ srv' = <<>> /\ inbox' = <<>>]_vars

C12_Witness ==
    \E t \in Threads :
        /\ pc[t] = "idle"
        /\ call[t].op = "reset"
        /\ call[t].id >= 2
        /\ result[t].id = call[t].id
        /\ result[t].kind = "return"
        /\ socket.state = "idle"
        /\ ~socket.closed

\* C13: a request is put on the wire only by the send of a call that has not
\* had an outcome yet; a call's send is followed by its one receive or by a
\* raise; when the receive is over the call is over, with nothing sent
\* again; and a caller gets to a send again only by beginning a new call.
C13_NoRetry ==
    [][/\ Len(outq') > Len(outq) =>
             /\ Len(outq') = Len(outq) + 1
             /\ \E t \in Threads :
                   /\ pc[t] = "send"
                   /\ pc'[t] = "recv"
                   /\ outq'[Len(outq')].id = call[t].id
                   /\ result[t].id # call[t].id
       /\ \A t \in Threads :
             /\ (pc[t] = "send" /\ pc'[t] # "send")
                => pc'[t] \in {"recv", "raised"}
             /\ (pc[t] = "recv" /\ pc'[t] # "recv")
                => /\ pc'[t] \in {"idle", "raised"}
                   /\ result'[t].id = call[t].id
                   /\ outq' = outq
             /\ (pc[t] # "send" /\ pc'[t] = "send")
                => /\ pc[t] = "idle"
                   /\ call'[t].id > call[t].id
                   /\ outq' = outq]_vars

C13_Witness ==
    \E t \in Threads :
        /\ pc[t] = "raised"
        /\ result[t].id = call[t].id
        /\ result[t].sent
        /\ result[t].re = 0
        /\ outq # <<>>
        /\ outq[1].id = call[t].id

\* The reply at the head of the inbox does not deserialize into an envelope:
\* the bytes are no pickle, or the pickled dictionary has no status.
MalformedReplyAhead ==
    /\ inbox # <<>>
    /\ \/ ~IsPickle(Head(inbox).bytes)
       \/ "status" \notin DOMAIN Loads(Head(inbox).bytes)

\* C14: a call that receives a malformed reply raises, with an exception that
\* is neither the RuntimeError of the timeout nor the RuntimeError of a
\* server error (pickle's UnpicklingError for bytes that are no pickle), and
\* returns no payload.
C14_MalformedRaisesDistinct ==
    [][\A t \in Threads :
          (Receives(t) /\ MalformedReplyAhead)
          => /\ result'[t].kind = "raise"
             /\ result'[t].value = "None"
             /\ result'[t].id = call[t].id
             /\ result'[t].type # "RuntimeError"
             /\ ~IsTimeoutError(result'[t])
             /\ ~IsPickle(Head(inbox).bytes)
                   => result'[t].type = "UnpicklingError"
             /\ pc'[t] = "raised"]_vars

C14_Witness ==
    \E t \in Threads :
        /\ pc[t] = "raised"
        /\ result[t].id = call[t].id
        /\ result[t].re = call[t].id
        /\ result[t].type = "UnpicklingError"

\* C15: the socket's receive bound is the timeout the constructor set, 30
\* seconds (the constructor takes no timeout, so this is the only case); no
\* step changes it; a receive gives up only once 30 seconds have passed and
\* goes on waiting only before that.
C15_WaitBoundFixed ==
    /\ [](socket.rcvtimeo = 30 * 1000 /\ client.timeout_ms = socket.rcvtimeo)
    /\ [][/\ socket'.rcvtimeo = socket.rcvtimeo
          /\ client'.timeout_ms = client.timeout_ms
          /\ \A t \in Threads :
                /\ (pc[t] = "recv" /\ ~socket.closed /\ inbox = <<>>
                       /\ pc'[t] = "raised")
                   => waited[t] * TickMs >= 30 * 1000
                /\ waited'[t] > waited[t]
                   => (pc[t] = "recv" /\ waited[t] * TickMs < 30 * 1000)]_vars

C15_Witness ==
    \E t \in Threads :
        /\ pc[t] = "recv"
        /\ call[t].id >= 2
        /\ waited[t] * TickMs >= socket.rcvtimeo
        /\ inbox = <<>>

C17_CallTerminates ==
    \A t \in Threads :
        (pc[t] \in {"send", "recv"}) ~> (pc[t] \in {"idle", "raised"})

C17_Witness ==
    \E t \in Threads :
        /\ pc[t] = "raised"
        /\ IsTimeoutError(result[t])
        /\ result[t].id = call[t].id
        /\ inbox # <<>>
        /\ inbox[1].re = call[t].id

\* C18 (as claimed): a close() that has been called returns, with the socket
\* closed and the context terminated, also when a request is still queued.
C18_CloseTerminates ==
    \A t \in Threads :
        (pc[t] \in {"close", "term"})
            ~> (pc[t] \notin {"close", "term"} /\ socket.closed /\ termed)

\* The last outcome of caller t is a failure raised from a reply it received:
\* a server error or a reply that did not deserialize into an envelope.
FailedOnReply(t) ==
    /\ result[t].kind = "raise"
    /\ result[t].re # 0
    /\ result[t].id # call[t].id

\* C19: a call that fails on a non-ok or malformed reply has taken that reply
\* off the socket and leaves the socket idle with nothing in flight; the next
\* call on the open connection gets its request onto the wire, and the reply
\* it receives is the reply to that request.
C19_IdleAfterFailedReply ==
    [][\A t \in Threads :
          /\ (Receives(t) /\ (ErrorReplyAhead \/ MalformedReplyAhead))
             => /\ pc'[t] = "raised"
                /\ result'[t].re = Head(inbox).re
                /\ inbox' = Tail(inbox)
                /\ socket'.state = "idle"
                /\ InFlight' = 0
          /\ (pc[t] = "send" /\ pc'[t] # "send" /\ ~socket.closed
                /\ FailedOnReply(t))
             => /\ pc'[t] = "recv"
                /\ outq' = Append(outq, [bytes |-> Dumps(Request(call[t])),
                                         id |-> call[t].id])
          /\ (Receives(t) /\ FailedOnReply(t))
             => /\ Head(inbox).re = call[t].id
                /\ result'[t].id = call[t].id
                /\ result'[t].re = call[t].id]_vars

\* A call that followed a call failed on its reply has sent its request, and
\* the reply to that request has arrived for it.
C19_Witness ==
    \E t \in Threads :
        /\ pc[t] = "recv"
        /\ FailedOnReply(t)
        /\ ~socket.closed
        /\ inbox # <<>>
        /\ Head(inbox).re = call[t].id

====
